---- MODULE Spec2Model ----
(***************************************************************************)
(* A model of runic's lexer engine (src/src/lexer.rs): the scan cursor     *)
(* (position, current_char) over a UTF-8 source text, the operations       *)
(* Lexer::new, advance, jump_to and get_token, and the rules the crate     *)
(* ships (SkipWhitespaceRule, match_string!, match_word!) together with    *)
(* the rule of its own test (TestRule) and a rule that returns Err.        *)
(*                                                                         *)
(* The text is a sequence of bytes, indexed from 0 as in the source: byte  *)
(* p of the program is text[p + 1] here.  A two-byte character is the lead *)
(* byte "C3" followed by the continuation byte "A9" (U+00E9), or the lead   *)
(* byte "C2" followed by the continuation byte "A0" (U+00A0, a whitespace  *)
(* character).                                                             *)
(*                                                                         *)
(* A second part models the pure operations on spans and error reports:   *)
(* Span::new and location_to_line_col (src/src/span.rs) and Error::display *)
(* (src/src/error.rs), whose output is the sequence of lines it prints.    *)
(***************************************************************************)
EXTENDS Integers, Sequences, FiniteSets, TLC

\* ------------------------------------------------------------------ bounds

\* The longest source text, in characters.
MaxChars == 3
\* The longest rule list.
MaxRules == 2
\* The longest reported text, in characters.
MaxReportChars == 5

\* ------------------------------------------------------------- source text

\* Option<char>::None
None == "None"
\* The characters the texts are built from: a letter, a space, a letter
\* whose UTF-8 encoding is two bytes (U+00E9) and a whitespace character
\* whose UTF-8 encoding is two bytes (U+00A0, no-break space).
Alphabet == {"a", " ", "E9", "NBSP"}

\* char::is_whitespace
IsWhitespace(c) == c \in {" ", "NBSP"}

\* The UTF-8 bytes of one character.
Utf8(c) ==
    IF c = "E9" THEN <<"C3", "A9">>
    ELSE IF c = "NBSP" THEN <<"C2", "A0">>
    ELSE <<c>>

\* The bytes of a string given as its characters.
RECURSIVE Encode(_)
Encode(cs) == IF cs = <<>> THEN <<>> ELSE Utf8(Head(cs)) \o Encode(Tail(cs))

\* Every sequence over S of length at most n.
SeqsUpTo(S, n) == UNION {[1..k -> S] : k \in 0..n}

\* The source texts: Source::from_str(filename, code).code
Texts == {Encode(cs) : cs \in SeqsUpTo(Alphabet, MaxChars)}

\* str::is_char_boundary(p), for 0 <= p <= len
IsCharBoundary(code, p) ==
    p = Len(code) \/ (p < Len(code) /\ code[p + 1] \notin {"A9", "A0"})

\* code[p..].chars().next().unwrap(): the character that starts at byte p, or
\* "PANIC" when the slice fails (p beyond the end, or inside a character) or
\* when the slice is empty and unwrap() fails.
CharAt(code, p) ==
    IF p >= Len(code) \/ ~IsCharBoundary(code, p) THEN "PANIC"
    ELSE IF code[p + 1] = "C3" THEN "E9"
    ELSE IF code[p + 1] = "C2" THEN "NBSP"
    ELSE code[p + 1]

\* --------------------------------------------------------------- the cursor

\* The two fields of Lexer a rule can change, and whether the thread panicked.
Cursor(p, c, panicked) == [position |-> p, current_char |-> c, panicked |-> panicked]

\* Lexer::new: position 0 with the first character, None for an empty text.
LexerNew(code) ==
    IF 0 < Len(code) THEN Cursor(0, CharAt(code, 0), FALSE)
    ELSE Cursor(0, None, FALSE)

\* Lexer::advance.  `code.len() - 1` on an empty text: with overflow checks
\* (a debug build) the subtraction panics; without them it wraps to
\* usize::MAX, the branch is taken, position is incremented and the slice
\* panics.
Advance(code, checks, cur) ==
    IF cur.panicked THEN cur
    ELSE IF Len(code) = 0 THEN
        IF checks THEN Cursor(cur.position, cur.current_char, TRUE)
        ELSE Cursor(cur.position + 1, cur.current_char, TRUE)
    ELSE IF cur.position < Len(code) - 1 THEN
        LET p == cur.position + 1
            c == CharAt(code, p)
        IN IF c = "PANIC" THEN Cursor(p, cur.current_char, TRUE)
           ELSE Cursor(p, c, FALSE)
    ELSE Cursor(cur.position, None, FALSE)

\* Mutant of JumpTo: an out-of-bounds target is clamped to the length of the
\* text instead of one past it.
JumpToClampedToLen(code, cur, p) ==
    IF cur.panicked THEN cur
    ELSE IF p < Len(code) THEN
        LET c == CharAt(code, p)
        IN IF c = "PANIC" THEN Cursor(p, cur.current_char, TRUE)
           ELSE Cursor(p, c, FALSE)
    ELSE Cursor(Len(code), None, FALSE)

\* Lexer::jump_to(position)
JumpTo(code, cur, p) ==
    IF cur.panicked THEN cur
    ELSE IF p < Len(code) THEN
        LET c == CharAt(code, p)
        IN IF c = "PANIC" THEN Cursor(p, cur.current_char, TRUE)
           ELSE Cursor(p, c, FALSE)
    ELSE Cursor(Len(code) + 1, None, FALSE)

\* -------------------------------------------------------------------- rules

\* Mutant of SpanOk: a zero-length span passes the assertion.
SpanNotReversed(start, end) == start <= end

\* Span::new(start, end) asserts start < end; a Token is its kind and span.
SpanOk(start, end) == start < end
Token(kind, start, end) == [kind |-> kind, start |-> start, end |-> end]
NoToken == Token("", 0, 0)

\* What LexerRule::get_token returns, with the cursor as the rule left it:
\* outcome "Some" is Ok(Some(token)), "None" is Ok(None), "Err" is Err(e) and
\* "Panic" is a panic inside the rule.
RuleResult(cur, outcome, token) == [cursor |-> cur, outcome |-> outcome, token |-> token]

\* The loop shared by match_string!, match_word! and matches_sequence:
\* for c in s.chars() { if current_char == Some(c) { advance } else
\* { matched = false; break } }, from the i-th character of s on.
RECURSIVE MatchChars(_, _, _, _, _)
MatchChars(code, checks, s, i, cur) ==
    IF i > Len(s) \/ cur.panicked THEN [cursor |-> cur, matched |-> TRUE]
    ELSE IF cur.current_char = s[i]
        THEN MatchChars(code, checks, s, i + 1, Advance(code, checks, cur))
        ELSE [cursor |-> cur, matched |-> FALSE]

\* A rule made by match_string!(s, ..): a token spanning
\* [start_pos, lexer.position) when every character of s matched.
MatchStringRule(code, checks, s, cur) ==
    LET m == MatchChars(code, checks, s, 1, cur)
        c == m.cursor
    IN IF c.panicked THEN RuleResult(c, "Panic", NoToken)
       ELSE IF m.matched THEN
            IF SpanOk(cur.position, c.position)
            THEN RuleResult(c, "Some", Token("string", cur.position, c.position))
            ELSE RuleResult(Cursor(c.position, c.current_char, TRUE), "Panic", NoToken)
       ELSE RuleResult(c, "None", NoToken)

\* A rule made by match_word!(w, ..): as match_string!, and the character
\* after the word must be a space or the end of input.
MatchWordRule(code, checks, w, cur) ==
    LET m == MatchChars(code, checks, w, 1, cur)
        c == m.cursor
    IN IF c.panicked THEN RuleResult(c, "Panic", NoToken)
       ELSE IF m.matched /\ (c.current_char = " " \/ c.current_char = None) THEN
            IF SpanOk(cur.position, c.position)
            THEN RuleResult(c, "Some", Token("word", cur.position, c.position))
            ELSE RuleResult(Cursor(c.position, c.current_char, TRUE), "Panic", NoToken)
       ELSE RuleResult(c, "None", NoToken)

\* SkipWhitespaceRule: advance while the current character is whitespace.
\* The number of whitespace characters bounds the loop: advance() on the
\* last one sets current_char to None.
RECURSIVE SkipWhitespace(_, _, _)
SkipWhitespace(code, checks, cur) ==
    IF ~cur.panicked /\ cur.current_char # None /\ IsWhitespace(cur.current_char)
    THEN SkipWhitespace(code, checks, Advance(code, checks, cur))
    ELSE cur

SkipWhitespaceRule(code, checks, cur) ==
    LET c == SkipWhitespace(code, checks, cur)
    IN IF c.panicked THEN RuleResult(c, "Panic", NoToken)
       ELSE RuleResult(c, "None", NoToken)

\* TestRule of test_lexer_get_token, for the character ch: on that character,
\* advance once and return a token with the span Span::new(0, 3).
TestRule(code, checks, ch, cur) ==
    IF cur.current_char = ch THEN
        LET c == Advance(code, checks, cur)
        IN IF c.panicked THEN RuleResult(c, "Panic", NoToken)
           ELSE RuleResult(c, "Some", Token("test", 0, 3))
    ELSE RuleResult(cur, "None", NoToken)

\* A rule that reports an error: on the character ch it advances once and
\* returns Err(e); otherwise Ok(None).
ErrRule(code, checks, ch, cur) ==
    IF cur.current_char = ch THEN
        LET c == Advance(code, checks, cur)
        IN IF c.panicked THEN RuleResult(c, "Panic", NoToken)
           ELSE RuleResult(c, "Err", NoToken)
    ELSE RuleResult(cur, "None", NoToken)

\* The rules a list is made of.
SkipWs == [kind |-> "skip_whitespace", pat |-> <<>>]
StringAA == [kind |-> "match_string", pat |-> <<"a", "a">>]
WordA == [kind |-> "match_word", pat |-> <<"a">>]
WordAA == [kind |-> "match_word", pat |-> <<"a", "a">>]
TestA == [kind |-> "test", pat |-> <<"a">>]
ErrA == [kind |-> "err", pat |-> <<"a">>]
RuleSet == {SkipWs, StringAA, TestA, ErrA}
RuleLists == SeqsUpTo(RuleSet, MaxRules)

\* rule.generates_token(): true by default, false for SkipWhitespaceRule.
GeneratesToken(rule) == rule.kind # "skip_whitespace"

\* rule.get_token(lexer), by the rule's type.
RuleGetToken(code, checks, rule, cur) ==
    CASE rule.kind = "skip_whitespace" -> SkipWhitespaceRule(code, checks, cur)
      [] rule.kind = "match_string" -> MatchStringRule(code, checks, rule.pat, cur)
      [] rule.kind = "match_word" -> MatchWordRule(code, checks, rule.pat, cur)
      [] rule.kind = "test" -> TestRule(code, checks, rule.pat[1], cur)
      [] rule.kind = "err" -> ErrRule(code, checks, rule.pat[1], cur)

\* -------------------------------------------------------------- the program

VARIABLES
    text,             \* lexer.source.code, as bytes
    rules,            \* lexer.rules
    overflow_checks,  \* whether the build checks integer overflow
    position,         \* lexer.position
    current_char,     \* lexer.current_char
    pc,               \* "idle", "get_token" (inside the for loop) or "panicked"
    rule_idx,         \* the rule the for loop of get_token is at
    result,           \* what the last get_token() returned
    trace,            \* history: the rules the current get_token() call invoked
    last,             \* history: the last public operation and the cursor before it
    fresh_advances    \* history: the advance() calls made so far on a lexer on
                      \* which nothing else was called, -1 otherwise

vars == <<text, rules, overflow_checks, position, current_char, pc, rule_idx,
          result, trace, last, fresh_advances>>

\* The cursor of the lexer.
Cur == Cursor(position, current_char, pc = "panicked")

\* Result<Option<Token>, Error> of get_token, "NoCall" before any call and
\* while a call runs.
Result(tag, token) == [tag |-> tag, token |-> token]
NoCall == Result("NoCall", NoToken)

\* The last operation: its name, its argument and the cursor before it.
Op(name, arg, before) == [op |-> name, arg |-> arg, before |-> before]
\* jump_to(p) reads nothing of the cursor, so no cursor is recorded for it.
Unread == Cursor(0, None, FALSE)

\* One entry of the trace: rule idx was invoked on cursor `before`, left the
\* cursor at `left` and returned `outcome`.
Invocation(idx, before, r) ==
    [idx |-> idx, before |-> before, left |-> r.cursor, outcome |-> r.outcome,
     token |-> r.token]

\* A fresh Lexer over any text and any rule list.  Only on the empty text does
\* Advance read whether the build checks overflow, so the two builds are told
\* apart for the empty text alone.
LexerInit(lists) ==
    /\ text \in Texts
    /\ rules \in lists
    /\ overflow_checks \in (IF text = <<>> THEN BOOLEAN ELSE {TRUE})
    /\ position = LexerNew(text).position
    /\ current_char = LexerNew(text).current_char
    /\ pc = "idle"
    /\ rule_idx = 0
    /\ result = NoCall
    /\ trace = <<>>
    /\ last = Op("new", 0, LexerNew(text))
    /\ fresh_advances = 0

Init == LexerInit(RuleLists)

\* The cursor fields and pc after an operation that left the cursor at c.
SetCursor(c, running) ==
    /\ position' = c.position
    /\ current_char' = c.current_char
    /\ pc' = IF c.panicked THEN "panicked" ELSE running

\* A call of lexer.advance() from outside get_token.  The count of calls on a
\* fresh lexer is kept up to the length of the text.
DoAdvance ==
    /\ pc = "idle"
    /\ SetCursor(Advance(text, overflow_checks, Cur), "idle")
    /\ last' = Op("advance", 0, Cur)
    /\ result' = NoCall
    /\ trace' = <<>>
    /\ fresh_advances' = IF fresh_advances >= 0 /\ fresh_advances < Len(text)
                         THEN fresh_advances + 1 ELSE -1
    /\ UNCHANGED <<text, rules, overflow_checks, rule_idx>>

\* A call of lexer.jump_to(p) from outside get_token.
DoJumpTo(p) ==
    /\ pc = "idle"
    /\ SetCursor(JumpTo(text, Cur, p), "idle")
    /\ last' = Op("jump_to", p, Unread)
    /\ result' = NoCall
    /\ trace' = <<>>
    /\ fresh_advances' = -1
    /\ UNCHANGED <<text, rules, overflow_checks, rule_idx>>

\* lexer.get_token() is called: the for loop starts at the first rule.
GetTokenEnter ==
    /\ pc = "idle"
    /\ pc' = "get_token"
    /\ rule_idx' = 1
    /\ result' = NoCall
    /\ trace' = <<>>
    /\ last' = Op("get_token", 0, Cur)
    /\ fresh_advances' = -1
    /\ UNCHANGED <<text, rules, overflow_checks, position, current_char>>

\* The rule the loop moves to after rule i.
NextRule(i) == i + 1

\* Mutant of Continues: a token does not end the call, the later rules are
\* still tried.
ContinuesAfterToken(r) == r.outcome \in {"None", "Some"}

\* Mutant of Continues: an error is taken for "no match" and the later rules
\* are still tried.
ContinuesAfterErr(r) == r.outcome \in {"None", "Err"}

\* Whether the loop goes on to the next rule after a rule returned r: only
\* after Ok(None).  Err(e) returns through `?`, Ok(Some(token)) through
\* `return Ok(Some(token))`, and a panic unwinds.
Continues(r) == r.outcome = "None"

\* Mutant of Restore: the cursor is put back to the start of the text.
RestoreToStart(code, rule, prev_position, cur) ==
    IF GeneratesToken(rule) THEN JumpTo(code, cur, 0) ELSE cur

\* What the loop does with the cursor before it goes on:
\* jump_to(prev_position) if the rule generates tokens.
Restore(code, rule, prev_position, cur) ==
    IF GeneratesToken(rule) THEN JumpTo(code, cur, prev_position) ELSE cur

\* What get_token returns when rule result r ends the call.
Returned(r) ==
    CASE r.outcome = "Some" -> Result("Some", r.token)
      [] r.outcome = "Err" -> Result("Err", NoToken)
      [] OTHER -> NoCall

\* One iteration of the for loop of get_token: record prev_position, invoke
\* the rule, then return its token or its error, or restore the cursor and
\* go on.  The rule is handed `&mut *self_ptr` while the loop borrows
\* self.rules; the field is private to the module and no rule writes it, so
\* the rule's writes are those to position and current_char.
GetTokenRule ==
    /\ pc = "get_token"
    /\ rule_idx <= Len(rules)
    /\ LET rule == rules[rule_idx]
           prev_position == position
           r == RuleGetToken(text, overflow_checks, rule, Cur)
       IN /\ trace' = Append(trace, Invocation(rule_idx, Cur, r))
          /\ IF Continues(r)
             THEN /\ SetCursor(Restore(text, rule, prev_position, r.cursor), "get_token")
                  /\ result' = NoCall
                  /\ rule_idx' = NextRule(rule_idx)
             ELSE /\ SetCursor(r.cursor, "idle")
                  /\ result' = Returned(r)
                  /\ rule_idx' = rule_idx
    /\ UNCHANGED <<text, rules, overflow_checks, last, fresh_advances>>

\* The for loop is over: get_token returns Ok(None).
GetTokenNone ==
    /\ pc = "get_token"
    /\ rule_idx > Len(rules)
    /\ pc' = "idle"
    /\ result' = Result("None", NoToken)
    /\ UNCHANGED <<text, rules, overflow_checks, position, current_char, rule_idx,
                   trace, last, fresh_advances>>

Next ==
    \/ DoAdvance
    \/ \E p \in 0..(Len(text) + 1) : DoJumpTo(p)
    \/ GetTokenEnter
    \/ GetTokenRule
    \/ GetTokenNone

Spec == Init /\ [][Next]_vars

\* ------------------------------------------------------- the driving loop

\* loop { match lexer.get_token() { Ok(Some(_)) => continue, _ => break } }
\* on a fresh lexer: the next call is made only after a token was returned.
DriveCall ==
    /\ result.tag \in {"NoCall", "Some"}
    /\ GetTokenEnter

\* The loop has ended: get_token returned Ok(None) or Err, or panicked.
DriveDone ==
    \/ pc = "panicked"
    \/ pc = "idle" /\ result.tag \in {"None", "Err"}

NextDrive ==
    \/ DriveCall
    \/ GetTokenRule
    \/ GetTokenNone

\* The loop is sequential code: it takes its next step whenever it has one.
SpecDrive == Init /\ [][NextDrive]_vars /\ WF_vars(NextDrive)

\* ------------------------------------------------- a lexer with one word rule

\* A fresh Lexer whose only rule is made by match_word!.
SpecWord == LexerInit({<<WordA>>, <<WordAA>>}) /\ [][Next]_vars

\* ------------------------------------------------------- matches_sequence

\* The sequences matches_sequence is called with.
Sequences == {<<>>, <<"a">>, <<"a", "a">>, <<"a", " ">>}

\* utils::matches_sequence(lexer, sequence): false for the empty sequence;
\* otherwise the loop of MatchChars, and jump_to(start_pos) when it did not
\* match.
MatchesSequence(code, checks, seq, cur) ==
    IF seq = <<>> THEN [cursor |-> cur, matched |-> FALSE]
    ELSE LET m == MatchChars(code, checks, seq, 1, cur)
         IN IF m.cursor.panicked \/ m.matched THEN m
            ELSE [cursor |-> JumpTo(code, m.cursor, cur.position), matched |-> FALSE]

\* A call of matches_sequence(&mut lexer, seq); its boolean is kept in result.
DoMatchesSequence(seq) ==
    /\ pc = "idle"
    /\ LET m == MatchesSequence(text, overflow_checks, seq, Cur)
       IN /\ SetCursor(m.cursor, "idle")
          /\ result' = IF m.cursor.panicked THEN NoCall
                        ELSE Result(IF m.matched THEN "true" ELSE "false", NoToken)
    /\ last' = Op("matches_sequence", seq, Cur)
    /\ trace' = <<>>
    /\ fresh_advances' = -1
    /\ UNCHANGED <<text, rules, overflow_checks, rule_idx>>

NextSeq ==
    \/ DoAdvance
    \/ \E p \in 0..(Len(text) + 1) : DoJumpTo(p)
    \/ \E seq \in Sequences : DoMatchesSequence(seq)

\* A fresh Lexer without rules (Lexer::new(&source, vec![])) on which
\* advance, jump_to and matches_sequence are called.
SpecSeq == LexerInit({<<>>}) /\ [][NextSeq]_vars

\* ------------------------------------------- spans, locations and reports

\* The characters of the reported texts: a letter, a line feed and the
\* two-byte character.
Newline == "LF"
ReportAlphabet == {"a", Newline, "E9"}

\* The source texts an error is reported on.
ReportTexts == {Encode(cs) : cs \in SeqsUpTo(ReportAlphabet, MaxReportChars)}

\* Span::new(start, end): the span, or a panic of assert!(start < end).
SpanNew(start, end) ==
    IF SpanOk(start, end) THEN [tag |-> "Span", start |-> start, end |-> end]
    ELSE [tag |-> "Panic", start |-> 0, end |-> 0]

\* The number of bytes of the character whose first byte is b.
LenUtf8(b) == IF b \in {"C3", "C2"} THEN 2 ELSE 1

\* Mutant of Walk: a column per byte instead of a column per character.
RECURSIVE WalkBytes(_, _, _, _, _)
WalkBytes(source, i, index, line, col) ==
    IF i >= Len(source) \/ i = index THEN [line |-> line, col |-> col]
    ELSE IF source[i + 1] = Newline
         THEN WalkBytes(source, i + 1, index, line + 1, 1)
         ELSE WalkBytes(source, i + 1, index, line, col + 1)

\* The loop of location_to_line_col over source.char_indices(), from the
\* character that starts at byte i: it stops at i == index or at the end of
\* the text, a line feed starts a new line, any other character is a column.
RECURSIVE Walk(_, _, _, _, _)
Walk(source, i, index, line, col) ==
    IF i >= Len(source) \/ i = index THEN [line |-> line, col |-> col]
    ELSE IF source[i + 1] = Newline
         THEN Walk(source, i + LenUtf8(source[i + 1]), index, line + 1, 1)
         ELSE Walk(source, i + LenUtf8(source[i + 1]), index, line, col + 1)

\* location_to_line_col(source, index)
LocationToLineCol(source, index) == Walk(source, 0, index, 1, 1)

\* str::lines(): the text split at line feeds; a line feed at the very end
\* does not start a further line, and the empty text has no line.
RECURSIVE Lines(_, _)
Lines(code, acc) ==
    IF code = <<>> THEN (IF acc = <<>> THEN <<>> ELSE <<acc>>)
    ELSE IF Head(code) = Newline THEN <<acc>> \o Lines(Tail(code), <<>>)
    ELSE Lines(Tail(code), Append(acc, Head(code)))

\* usize::to_string().len()
RECURSIVE Digits(_)
Digits(n) == IF n < 10 THEN 1 ELSE 1 + Digits(n \div 10)

\* usize arithmetic: a value below zero stands for the wrapped value
\* (2^64 more).  A subtraction whose result wraps panics when the build
\* checks overflow.
SubPanics(a, b, checks) == checks /\ a - b < 0
\* str::repeat(n) panics (capacity overflow) for a wrapped n.
RepeatPanics(n) == n < 0

\* The printed lines.
Header == [kind |-> "header"]
Location(form, sl, sc, el, ec) ==
    [kind |-> "location", form |-> form, start_line |-> sl, start_col |-> sc,
     end_line |-> el, end_col |-> ec]
Gutter == [kind |-> "gutter"]
SourceLine(number, line) == [kind |-> "source", number |-> number, line |-> line]
Underline(spaces, carets) == [kind |-> "underline", spaces |-> spaces, carets |-> carets]
ContextLine == [kind |-> "context"]
NoteLine == [kind |-> "note"]

\* What display() printed, and whether it panicked after that.
Report(lines, panicked) ==
    [tag |-> IF panicked THEN "Panic" ELSE "Report", lines |-> lines]

\* Mutant of LocationLine: the columns are compared before end_col is
\* decremented.
LocationLineExclusive(sl, sc, el, ec) ==
    IF sl = el
    THEN IF sc = ec + 1 THEN Location("point", sl, sc, sl, sc)
         ELSE Location("columns", sl, sc, sl, ec)
    ELSE Location("lines", sl, sc, el, ec)

\* The location line: file:line:col, file:line:col-col or
\* file:line:col-line:col.
LocationLine(sl, sc, el, ec) ==
    IF sl = el
    THEN IF sc = ec THEN Location("point", sl, sc, sl, sc)
         ELSE Location("columns", sl, sc, sl, ec)
    ELSE Location("lines", sl, sc, el, ec)

\* Mutant of SingleLineCarets: the end column taken as exclusive.
SingleLineCaretsExclusive(sc, ec) == ec - sc

\* "^".repeat(end_col - start_col + 1)
SingleLineCarets(sc, ec) == ec - sc + 1

\* One pass of the loop over the lines: the source line, then its underline.
\* A panic in the arguments of an eprintln! leaves that line unprinted.
DisplayLine(line, line_number, sl, sc, el, ec, number_of_spaces, checks) ==
    LET pad == number_of_spaces - Digits(line_number)
        src == SourceLine(line_number, line)
    IN IF SubPanics(number_of_spaces, Digits(line_number), checks) \/ RepeatPanics(pad)
       THEN Report(<<>>, TRUE)
       ELSE IF line_number = sl /\ line_number = el
       THEN IF SubPanics(ec, sc, checks) \/ RepeatPanics(SingleLineCarets(sc, ec))
            THEN Report(<<src>>, TRUE)
            ELSE Report(<<src, Underline(sc - 1, SingleLineCarets(sc, ec))>>, FALSE)
       ELSE IF line_number = sl
       THEN IF SubPanics(Len(line), sc, checks) \/ RepeatPanics(Len(line) - sc + 1)
            THEN Report(<<src>>, TRUE)
            ELSE Report(<<src, Underline(sc - 1, Len(line) - sc + 1)>>, FALSE)
       ELSE IF line_number = el
       THEN Report(<<src, Underline(0, ec + 1)>>, FALSE)
       ELSE Report(<<src, Underline(0, Len(line))>>, FALSE)

\* The loop over lines.iter().skip(start_line - 1).take(count), from the
\* line_index-th of them on.
RECURSIVE DisplayLines(_, _, _, _, _, _, _, _)
DisplayLines(lines, line_index, sl, sc, el, ec, number_of_spaces, checks) ==
    IF line_index >= Len(lines) THEN Report(<<>>, FALSE)
    ELSE LET one == DisplayLine(lines[line_index + 1], sl + line_index,
                                sl, sc, el, ec, number_of_spaces, checks)
         IN IF one.tag = "Panic" THEN one
            ELSE LET rest == DisplayLines(lines, line_index + 1, sl, sc, el, ec,
                                          number_of_spaces, checks)
                 IN Report(one.lines \o rest.lines, rest.tag = "Panic")

\* iter.skip(n).take(count); a wrapped count takes every line left.
SkipTake(lines, n, count) ==
    LET last_taken == IF count < 0 \/ n + count > Len(lines) THEN Len(lines) ELSE n + count
    IN IF n >= Len(lines) THEN <<>> ELSE SubSeq(lines, n + 1, last_taken)

\* Error::display of an error on span (start, end) of the text; decorated
\* is whether the error has a context and a note (with_context, with_note).
Display(code, checks, start, end, decorated) ==
    LET s == LocationToLineCol(code, start)
        e == LocationToLineCol(code, end)
        sl == s.line
        sc == s.col
        el == e.line
        ec == e.col - 1
        number_of_spaces == Digits(IF sl > el THEN sl ELSE el)
        head == <<Header, LocationLine(sl, sc, el, ec)>>
        shown == SkipTake(Lines(code, <<>>), sl - 1, el - sl + 1)
        body == DisplayLines(shown, 0, sl, sc, el, ec, number_of_spaces, checks)
        tail == IF decorated THEN <<Gutter, ContextLine, NoteLine>> ELSE <<>>
    IN IF SubPanics(el, sl, checks) THEN Report(head, TRUE)
       ELSE IF body.tag = "Panic" THEN Report(head \o <<Gutter>> \o body.lines, TRUE)
       ELSE Report(head \o <<Gutter>> \o body.lines \o tail, FALSE)

\* The text an error is reported on; there is no lexer, its fields keep
\* their values.  The three operations below read the text and their
\* arguments only, so each behaviour applies one of them once to the text.
InitReport ==
    /\ text \in ReportTexts
    /\ overflow_checks \in BOOLEAN
    /\ rules = <<>>
    /\ position = 0
    /\ current_char = None
    /\ pc = "idle"
    /\ rule_idx = 0
    /\ result = NoCall
    /\ trace = <<>>
    /\ last = Op("none", 0, Unread)
    /\ fresh_advances = 0

\* The byte offsets a caller passes: up to one past the length.
Offsets == 0..(Len(text) + 1)

\* Span::new(start, end)
DoSpanNew(start, end) ==
    /\ last.op = "none"
    /\ result' = SpanNew(start, end)
    /\ last' = Op("Span::new", [start |-> start, end |-> end], Unread)
    /\ UNCHANGED <<text, rules, overflow_checks, position, current_char, pc,
                   rule_idx, trace, fresh_advances>>

\* location_to_line_col(&source.code, index)
DoLocate(index) ==
    /\ last.op = "none"
    /\ result' = [tag |-> "LineCol"] @@ LocationToLineCol(text, index)
    /\ last' = Op("location_to_line_col", index, Unread)
    /\ UNCHANGED <<text, rules, overflow_checks, position, current_char, pc,
                   rule_idx, trace, fresh_advances>>

\* Error::new(message, &source, Span { start, end }).display(), with or
\* without .with_context(..).with_note(..)
DoDisplay(start, end, decorated) ==
    /\ last.op = "none"
    /\ result' = Display(text, overflow_checks, start, end, decorated)
    /\ last' = Op("display", [start |-> start, end |-> end, decorated |-> decorated], Unread)
    /\ UNCHANGED <<text, rules, overflow_checks, position, current_char, pc,
                   rule_idx, trace, fresh_advances>>

NextReport ==
    \/ \E start, end \in Offsets : DoSpanNew(start, end)
    \/ \E index \in Offsets : DoLocate(index)
    \/ \E start, end \in Offsets, decorated \in BOOLEAN : DoDisplay(start, end, decorated)

SpecReport == InitReport /\ [][NextReport]_vars

\* ---------------------------------------------------------------- claims

\* get_token() has returned and nothing was called since.
Returned_get_token == pc = "idle" /\ last.op = "get_token" /\ result # NoCall

\* The position the engine left after the restore step that followed the
\* j-th invocation of the call: the position the next rule was invoked at,
\* or the position of the lexer after the last invocation.
PositionAfter(j) == IF j < Len(trace) THEN trace[j + 1].before.position ELSE position

\* The cursor the engine left after the j-th invocation of the call.
CursorAfter(j) == IF j < Len(trace) THEN trace[j + 1].before ELSE Cur

\* C1: get_token invokes the rules in list order, one after the other from
\* the first, goes on only after a rule that returned Ok(None), and returns
\* the token of the first rule that returns one: once a rule has returned a
\* token the call is over and no later rule is invoked.
C1_FirstMatchInListOrder ==
    /\ \A j \in 1..Len(trace) : trace[j].idx = j
    /\ \A j \in 1..(Len(trace) - 1) : trace[j].outcome = "None"
    /\ \A j \in 1..Len(trace) :
          trace[j].outcome = "Some" =>
             /\ j = Len(trace)
             /\ pc = "idle"
             /\ result = Result("Some", trace[j].token)
    /\ result.tag = "Some" =>
          /\ trace # <<>>
          /\ trace[Len(trace)].outcome = "Some"
    /\ (pc = "get_token" /\ trace = <<>>) => rule_idx = 1

\* C1 witness: the first of two rules returned the token although the second
\* would have matched a longer text at the same position.
C1_Witness ==
    /\ Returned_get_token
    /\ Len(rules) = 2
    /\ Len(trace) = 1
    /\ result.tag = "Some"
    /\ LET r2 == RuleGetToken(text, overflow_checks, rules[2], last.before)
       IN /\ r2.outcome = "Some"
          /\ r2.token # result.token
          /\ r2.cursor.position > position

\* C2 (as claimed): whenever a rule that generates tokens returned Ok(None),
\* the position after the restore step is the position recorded before the
\* rule was invoked.
C2_BacktrackRoundTrip ==
    \A j \in 1..Len(trace) :
        (GeneratesToken(rules[trace[j].idx]) /\ trace[j].outcome = "None")
            => PositionAfter(j) = trace[j].before.position

\* The character whose encoding starts at byte p of the text.
CharacterAt(code, p) ==
    IF code[p + 1] = "C3" THEN "E9"
    ELSE IF code[p + 1] = "C2" THEN "NBSP"
    ELSE code[p + 1]

\* The offset of the first character at or after byte p that is not
\* whitespace, the length of the text if there is none.
FirstNonWhitespace(code, p) ==
    LET stops == {k \in p..(Len(code) - 1) :
                    IsCharBoundary(code, k) /\ ~IsWhitespace(CharacterAt(code, k))}
    IN IF stops = {} THEN Len(code)
       ELSE CHOOSE k \in stops : \A m \in stops : k <= m

\* C3 (as claimed): a rule with generates_token() == false that returned
\* Ok(None) is not undone: the next rule is invoked on the cursor it left
\* (and the call ends with that cursor if it was the last rule).  And a
\* get_token() call with rules [SkipWhitespaceRule, M] on a cursor on
\* whitespace that is followed by a text M matches ends by returning the
\* token M gives from the first non-whitespace position.
C3_SkipRuleEffectPersists ==
    /\ \A j \in 1..Len(trace) :
          (~GeneratesToken(rules[trace[j].idx]) /\ trace[j].outcome = "None")
             => CursorAfter(j) = trace[j].left
    /\ ( /\ last.op = "get_token"
         /\ pc # "get_token"
         /\ Len(rules) = 2
         /\ rules[1] = SkipWs
         /\ last.before.current_char # None
         /\ IsWhitespace(last.before.current_char) )
       => LET k == FirstNonWhitespace(text, last.before.position)
              m == RuleGetToken(text, overflow_checks, rules[2],
                                Cursor(k, CharAt(text, k), FALSE))
          IN (k < Len(text) /\ m.outcome = "Some")
                => /\ pc = "idle"
                   /\ result = Result("Some", m.token)
                   /\ Cur = m.cursor

\* C4: when a rule returns Err(e), get_token returns Err(e) at once: the
\* failing rule is the last one invoked and the cursor is where it left it.
C4_ErrAbortsWithoutRestore ==
    \A j \in 1..Len(trace) :
        trace[j].outcome = "Err" =>
            /\ j = Len(trace)
            /\ pc = "idle"
            /\ result.tag = "Err"
            /\ Cur = trace[j].left

\* C4 witness: the first of two rules failed after moving the cursor, and the
\* second would have returned a token at the recorded position.
C4_Witness ==
    /\ Returned_get_token
    /\ Len(rules) = 2
    /\ Len(trace) = 1
    /\ trace[1].outcome = "Err"
    /\ position # last.before.position
    /\ RuleGetToken(text, overflow_checks, rules[2], last.before).outcome = "Some"

\* C5 (as claimed): when every rule generates tokens and every rule returned
\* Ok(None), get_token returns Ok(None) with position and current_char as
\* they were before the call.
C5_FailedCallLeavesCursor ==
    ( /\ pc = "idle"
      /\ last.op = "get_token"
      /\ Len(trace) = Len(rules)
      /\ \A j \in 1..Len(trace) :
            GeneratesToken(rules[j]) /\ trace[j].outcome = "None" )
    => /\ result.tag = "None"
       /\ position = last.before.position
       /\ current_char = last.before.current_char

\* C6 (as claimed): between calls, current_char is None exactly when position
\* is at or past the length of the text, and otherwise it is the character
\* that starts at byte position.
C6_CursorConsistent ==
    pc = "idle" =>
        /\ (current_char = None) <=> (position >= Len(text))
        /\ position < Len(text) =>
              /\ IsCharBoundary(text, position)
              /\ current_char = CharacterAt(text, position)

\* C7 (as claimed): on a text of n >= 1 single-byte characters, n calls of
\* advance() on the fresh lexer end at position = n with current_char = None.
C7_ConsumedAtLength ==
    ( /\ Len(text) >= 1
      /\ \A i \in 1..Len(text) : text[i] \in {"a", " "}
      /\ fresh_advances = Len(text) )
    => /\ pc = "idle"
       /\ position = Len(text)
       /\ current_char = None

\* C8 (as claimed): the loop that calls get_token() until it returns Ok(None)
\* or Err comes to an end.  Every rule of RuleSet returns a token only after
\* an advance() on a cursor that has a character.
C8_DrivingLoopTerminates == <>DriveDone

\* C9 (as claimed): jump_to(p) gives position = p and the character at p for
\* every p below the length of the text, and position = length + 1 with
\* current_char = None for every other p.
C9_JumpToAnyOffset ==
    last.op = "jump_to" =>
        IF last.arg < Len(text)
        THEN /\ pc = "idle"
             /\ position = last.arg
             /\ current_char = CharacterAt(text, last.arg)
        ELSE /\ pc = "idle"
             /\ position = Len(text) + 1
             /\ current_char = None

\* C9 (amended): jump_to(p) gives position = p and the character at p for
\* every p below the length of the text that is a character boundary, and
\* position = length + 1 with current_char = None for every p at or beyond
\* the length.
C9_JumpToOnBoundary ==
    last.op = "jump_to" =>
        /\ (last.arg < Len(text) /\ IsCharBoundary(text, last.arg)) =>
              /\ pc = "idle"
              /\ position = last.arg
              /\ current_char = CharacterAt(text, last.arg)
        /\ last.arg >= Len(text) =>
              /\ pc = "idle"
              /\ position = Len(text) + 1
              /\ current_char = None

\* C9 witness: a jump to the start of the two-byte character that is not the
\* first character of the text.
C9_Witness ==
    /\ pc = "idle"
    /\ last.op = "jump_to"
    /\ last.arg > 0
    /\ last.arg < Len(text)
    /\ position = last.arg
    /\ current_char = "E9"

\* C10 (as claimed): on a non-empty text, advance() at a position p below
\* length - 1 gives position p + 1 and the character at the new position.
C10_AdvanceByOne ==
    ( /\ last.op = "advance"
      /\ Len(text) > 0
      /\ last.before.position < Len(text) - 1 )
    => /\ pc = "idle"
       /\ position = last.before.position + 1
       /\ IsCharBoundary(text, position)
       /\ current_char = CharacterAt(text, position)

\* The line of byte offset idx: one more than the line feeds before it.
LineOf(code, idx) == 1 + Cardinality({k \in 1..idx : code[k] = Newline})

\* The column of byte offset idx: one more than the characters between the
\* last line feed before idx (or the start of the text) and idx.
ColumnOf(code, idx) ==
    LET feeds == {k \in 1..idx : code[k] = Newline}
        from == IF feeds = {} THEN 0 ELSE CHOOSE k \in feeds : \A m \in feeds : m <= k
    IN 1 + Cardinality({k \in (from + 1)..idx : code[k] # "A9"})

\* The number of characters of the bytes [start, end).
CharsIn(code, start, end) == Cardinality({k \in (start + 1)..end : code[k] # "A9"})

\* A span as the lexer makes them: not empty, inside the text, on character
\* boundaries.
ValidSpan(code, start, end) ==
    /\ start < end
    /\ end <= Len(code)
    /\ IsCharBoundary(code, start)
    /\ IsCharBoundary(code, end)

\* The underlines of a report.
Underlines(r) == {i \in 1..Len(r.lines) : r.lines[i].kind = "underline"}

\* C11: Span::new(start, end) returns the span with exactly start and end
\* when start < end, and panics for every start >= end.
C11_SpanNewChecksOrder ==
    last.op = "Span::new" =>
        IF last.arg.start < last.arg.end
        THEN result = [tag |-> "Span", start |-> last.arg.start, end |-> last.arg.end]
        ELSE result.tag = "Panic"

\* C11 witness: a zero-length span was refused with a panic.
C11_Witness ==
    /\ last.op = "Span::new"
    /\ last.arg.start = last.arg.end
    /\ last.arg.start > 0
    /\ result.tag = "Panic"

\* C12: for every idx below the length that is a character boundary,
\* location_to_line_col returns line = 1 + the line feeds before idx and
\* col = 1 + the characters since the last line feed before idx.
C12_LocationIsLineAndColumn ==
    ( /\ last.op = "location_to_line_col"
      /\ last.arg < Len(text)
      /\ IsCharBoundary(text, last.arg) ) =>
        /\ result.line = LineOf(text, last.arg)
        /\ result.col = ColumnOf(text, last.arg)

\* C12 witness: the offset of a line feed on the second line, after a
\* two-byte character; it got the column one past that character.
C12_Witness ==
    /\ last.op = "location_to_line_col"
    /\ last.arg >= 3
    /\ last.arg < Len(text)
    /\ text[last.arg + 1] = Newline
    /\ text[last.arg] = "A9"
    /\ text[last.arg - 2] = Newline
    /\ result.line = 2
    /\ result.col = 2

\* C13: display() of a span of N characters that starts and ends on one
\* line prints that line and under it one underline of start_col - 1 spaces
\* and N = end_col - start_col + 1 carets, and no other underline.
C13_SingleLineUnderline ==
    ( /\ last.op = "display"
      /\ ValidSpan(text, last.arg.start, last.arg.end)
      /\ LineOf(text, last.arg.start) = LineOf(text, last.arg.end) ) =>
        LET l == LineOf(text, last.arg.start)
            sc == ColumnOf(text, last.arg.start)
            ec == ColumnOf(text, last.arg.end) - 1
            n == CharsIn(text, last.arg.start, last.arg.end)
        IN /\ result.tag = "Report"
           /\ n = ec - sc + 1
           /\ \E i \in 1..(Len(result.lines) - 1) :
                 /\ result.lines[i] = SourceLine(l, Lines(text, <<>>)[l])
                 /\ result.lines[i + 1] = Underline(sc - 1, n)
                 /\ Underlines(result) = {i + 1}

\* C13 witness: a span of two characters, one of them two bytes long, that
\* starts in the second column: one space and two carets.
C13_Witness ==
    /\ last.op = "display"
    /\ ValidSpan(text, last.arg.start, last.arg.end)
    /\ last.arg.end = last.arg.start + 3
    /\ LineOf(text, last.arg.start) = LineOf(text, last.arg.end)
    /\ result.tag = "Report"
    /\ \E i \in 1..Len(result.lines) : result.lines[i] = Underline(1, 2)

\* C14 (as claimed): display() of a span that covers several lines prints,
\* for every line from the start line to the end line that the text has,
\* the source line and one underline: on the first line start_col - 1
\* spaces and line length - start_col + 1 carets, on the last line
\* end_col + 1 carets, on a line between them as many carets as the line is
\* long (lengths as display() takes them, line.len()).
C14_MultiLineUnderlines ==
    ( /\ last.op = "display"
      /\ ValidSpan(text, last.arg.start, last.arg.end)
      /\ LineOf(text, last.arg.start) # LineOf(text, last.arg.end) ) =>
        LET sl == LineOf(text, last.arg.start)
            el == LineOf(text, last.arg.end)
            sc == ColumnOf(text, last.arg.start)
            ec == ColumnOf(text, last.arg.end) - 1
            ls == Lines(text, <<>>)
            touched == {l \in sl..el : l <= Len(ls)}
        IN /\ result.tag = "Report"
           /\ Cardinality(Underlines(result)) = Cardinality(touched)
           /\ \A l \in touched :
                \E i \in 1..(Len(result.lines) - 1) :
                   /\ result.lines[i] = SourceLine(l, ls[l])
                   /\ result.lines[i + 1] =
                         IF l = sl THEN Underline(sc - 1, Len(ls[l]) - sc + 1)
                         ELSE IF l = el THEN Underline(0, ec + 1)
                         ELSE Underline(0, Len(ls[l]))

\* C15: the second line display() prints is the location line, and its form
\* follows the coordinates location_to_line_col gives for span.start and
\* span.end, the end column less one: a point, a column range on one line,
\* or a range over lines.
C15_LocationLineForm ==
    last.op = "display" =>
        LET s == LocationToLineCol(text, last.arg.start)
            e == LocationToLineCol(text, last.arg.end)
            ec == e.col - 1
            shown == result.lines[2]
        IN /\ Len(result.lines) >= 2
           /\ shown.kind = "location"
           /\ shown.start_line = s.line /\ shown.start_col = s.col
           /\ (s.line = e.line /\ s.col = ec) =>
                 shown.form = "point"
           /\ (s.line = e.line /\ s.col # ec) =>
                 shown.form = "columns" /\ shown.end_col = ec
           /\ s.line # e.line =>
                 shown.form = "lines" /\ shown.end_line = e.line /\ shown.end_col = ec

\* C15 witness: the span of one two-byte character in the second column is
\* shown as a point.
C15_Witness ==
    /\ last.op = "display"
    /\ ValidSpan(text, last.arg.start, last.arg.end)
    /\ last.arg.end = last.arg.start + 2
    /\ text[last.arg.start + 1] = "C3"
    /\ result.tag = "Report"
    /\ result.lines[2] = Location("point", 1, 2, 1, 2)

\* The text starts with the single-byte characters s at byte p.
StartsWith(code, p, s) ==
    /\ p + Len(s) <= Len(code)
    /\ \A i \in 1..Len(s) : code[p + i] = s[i]

\* C16 (as claimed): with rules [SkipWhitespaceRule], get_token() does not
\* panic and returns Ok(None), and the cursor is then on the first
\* non-whitespace character at or after the position it started from, or
\* exhausted when only whitespace is left from there.
C16_SkipWhitespaceStopsAtText ==
    (rules = <<SkipWs>> /\ last.op = "get_token") =>
        /\ pc # "panicked"
        /\ \A j \in 1..Len(trace) : trace[j].outcome = "None"
        /\ pc = "idle" =>
            /\ result.tag = "None"
            /\ LET k == FirstNonWhitespace(text, last.before.position)
               IN IF k < Len(text)
                  THEN position = k /\ current_char = CharacterAt(text, k)
                  ELSE current_char = None

\* C17 (as claimed): a match_string!(s, ..) rule invoked on a cursor that has
\* a character at position p returns a token with span [p, p + len(s)) and
\* leaves the cursor at p + len(s) whenever the text at p starts with s, and
\* Ok(None) otherwise.
C17_MatchStringSpan ==
    \A j \in 1..Len(trace) :
        (rules[trace[j].idx] = StringAA /\ trace[j].before.current_char # None) =>
            LET p == trace[j].before.position
            IN IF StartsWith(text, p, StringAA.pat)
               THEN /\ trace[j].outcome = "Some"
                    /\ trace[j].token = Token("string", p, p + Len(StringAA.pat))
                    /\ trace[j].left.position = p + Len(StringAA.pat)
               ELSE trace[j].outcome = "None"

\* C18 (as claimed): a match_word!(w, ..) rule invoked on a cursor that has a
\* character at position p returns a token exactly when the text at p starts
\* with w and the character after w is a space or the end of input, and the
\* token's span is [p, p + len(w)); otherwise it returns Ok(None).
C18_MatchWordIff ==
    \A j \in 1..Len(trace) :
        (rules[trace[j].idx].kind = "match_word" /\ trace[j].before.current_char # None) =>
            LET p == trace[j].before.position
                w == rules[trace[j].idx].pat
                follows == p + Len(w) = Len(text) \/
                           (p + Len(w) < Len(text) /\ text[p + Len(w) + 1] = " ")
            IN IF StartsWith(text, p, w) /\ follows
               THEN /\ trace[j].outcome = "Some"
                    /\ trace[j].token = Token("word", p, p + Len(w))
               ELSE trace[j].outcome = "None"

\* C19 (as claimed): matches_sequence returns false for the empty sequence
\* and whenever the text at the cursor does not start with the sequence, and
\* whenever it returns false the position and current_char are what they
\* were before the call.
C19_MatchesSequenceResets ==
    last.op = "matches_sequence" =>
        /\ pc = "idle"
        /\ last.arg = <<>> => result.tag = "false"
        /\ (last.before.current_char # None
            /\ ~StartsWith(text, last.before.position, last.arg)) => result.tag = "false"
        /\ result.tag = "false" =>
              /\ position = last.before.position
              /\ current_char = last.before.current_char

\* C20 (as claimed): on a lexer over the empty text advance() completes and
\* leaves the cursor exhausted, with a position not beyond length + 1.
C20_AdvanceOnEmptyText ==
    (text = <<>> /\ last.op = "advance") =>
        /\ pc = "idle"
        /\ current_char = None
        /\ position <= Len(text) + 1

\* C21 (as claimed): display() of a span that is not empty, inside the text
\* and on character boundaries runs to completion: no subtraction it
\* performs panics.
C21_DisplayCompletes ==
    ( /\ last.op = "display"
      /\ ValidSpan(text, last.arg.start, last.arg.end) ) =>
        result.tag = "Report"

\* C22 (as claimed): advance() on a character of k bytes that is not the
\* last character gives position + k, a character boundary, and the
\* character that starts there.
C22_AdvanceToNextBoundary ==
    ( /\ last.op = "advance"
      /\ last.before.current_char # None
      /\ last.before.position + LenUtf8(text[last.before.position + 1]) < Len(text) )
    => /\ pc = "idle"
       /\ position = last.before.position + LenUtf8(text[last.before.position + 1])
       /\ IsCharBoundary(text, position)
       /\ current_char = CharacterAt(text, position)

\* C23 (as claimed): an advance() or get_token() called on an exhausted
\* cursor (current_char == None) leaves it exhausted, and every rule of that
\* call was invoked on an exhausted cursor.
C23_ExhaustedStaysExhausted ==
    ( /\ last.op \in {"advance", "get_token"}
      /\ last.before.current_char = None ) =>
        /\ current_char = None
        /\ \A j \in 1..Len(trace) : trace[j].before.current_char = None

\* C24: during and after a get_token() call the position is never smaller
\* than before the call, every rule is invoked at a position that is not
\* smaller than that of the rule before it, and the position never exceeds
\* the text length + 1.
C24_PositionMonotone ==
    last.op = "get_token" =>
        /\ position <= Len(text) + 1
        /\ last.before.position <= position
        /\ \A j \in 1..Len(trace) :
              /\ last.before.position <= trace[j].before.position
              /\ trace[j].before.position <= PositionAfter(j)

\* C24 witness: a second rule was invoked after the first failed at a
\* position past the start, and the call returned further on.
C24_Witness ==
    /\ pc = "idle"
    /\ last.op = "get_token"
    /\ Len(trace) = 2
    /\ last.before.position > 0
    /\ trace[1].outcome = "None"
    /\ trace[2].before.position = last.before.position
    /\ position > last.before.position

\* The columns under which display() printed a caret on line l.
CaretColumns(r, l) ==
    UNION { (r.lines[i + 1].spaces + 1)..(r.lines[i + 1].spaces + r.lines[i + 1].carets) :
            i \in {i \in 1..(Len(r.lines) - 1) :
                     /\ r.lines[i].kind = "source"
                     /\ r.lines[i].number = l
                     /\ r.lines[i + 1].kind = "underline"} }

\* The columns of the characters of line l whose byte offsets are in
\* [start, end), the line feed left out (feed = FALSE) or counted.
SpanColumns(code, start, end, l, feed) ==
    { ColumnOf(code, k) : k \in {k \in start..(end - 1) :
                                   /\ code[k + 1] # "A9"
                                   /\ LineOf(code, k) = l
                                   /\ (feed \/ code[k + 1] # Newline)} }

\* C25 (as claimed): when display() of a span that is not empty, inside the
\* text and on character boundaries completes, on every line the carets lie
\* under the characters of the span on that line and under no other column
\* (a caret under the line feed of the span is accepted).
C25_CaretsMarkTheSpan ==
    ( /\ last.op = "display"
      /\ ValidSpan(text, last.arg.start, last.arg.end)
      /\ result.tag = "Report" ) =>
        \A l \in 1..(Len(text) + 1) :
              /\ SpanColumns(text, last.arg.start, last.arg.end, l, FALSE)
                    \subseteq CaretColumns(result, l)
              /\ CaretColumns(result, l)
                    \subseteq SpanColumns(text, last.arg.start, last.arg.end, l, TRUE)

====
